---- MODULE Spec2Model ----
(***************************************************************************)
(* A model of asyncgit's branch layer (sync/branch/mod.rs,                 *)
(* sync/branch/merge_rebase.rs, sync/remotes/mod.rs) and of                *)
(* ui::calc_scroll_top.                                                    *)
(*                                                                         *)
(* A commit is identified by its history: the sequence of changes from the *)
(* root commit to itself, one change per commit (histories are linear, as  *)
(* every operation of this layer produces them).  A change sets one file   *)
(* to one content.  A commit a is an ancestor of b iff a is a prefix of b. *)
(*                                                                         *)
(* Every public operation is one atomic action: section 5 of the design    *)
(* runs each as an opaque blocking unit of work of a single writer.  The   *)
(* primitives of the git library are modelled by their state-determined    *)
(* outcomes (a missing reference, an unborn HEAD, a patch that is already  *)
(* applied, a rebase already in progress); I/O failures of the primitives  *)
(* are not injected.                                                       *)
(***************************************************************************)
EXTENDS Integers, Sequences, FiniteSets, TLC

\* ------------------------------------------------------------------ bounds

\* Commits the environment creates (by committing or by another clone's
\* push) in one behaviour of Spec and of SpecRebase.
MaxCommits == 2
MaxRebaseCommits == 4
\* Most remotes configured at once.
MaxRemotes == 3

\* The width of usize in bits: usize::MAX is 2^UsizeBits - 1.
UsizeBits == 3

\* ------------------------------------------------------------ the universe

Files == {"f1", "f2"}
\* The changes commits make: a file and its new content.  Two changes of
\* one file to different contents conflict.
Change == {<<"f1", 1>>, <<"f1", 2>>, <<"f2", 1>>}
\* The changes of Spec, where the branches matter and not their content:
\* what is committed locally, and what other clones push.
LocalChange == {<<"f1", 1>>}
FetchedChange == {<<"f1", 2>>}

\* Names are sequences of '/'-separated segments: origin/foo is
\* <<"origin", "foo">>.  An empty first segment is a leading '/'.
LocalNames == {<<"master">>, <<"foo">>}
RemoteBranchNames == {<<"origin", "master">>, <<"origin", "foo">>}

\* The remote-tracking branches of SpecListing: one whose name after the
\* remote has a '/' of its own.
NestedRemoteBranchNames == {<<"origin", "foo">>, <<"origin", "feature", "x">>}
\* refs/remotes/origin/HEAD, the symbolic reference to the remote's default branch.
ORIGIN_HEAD == <<"origin", "HEAD">>

\* Every branch name of the model's listings, in the byte order of String::cmp
\* ("feature/x" < "foo" < "master" < "origin/HEAD" < "origin/feature/x" < ...).
NameOrder ==
    << <<"feature", "x">>, <<"foo">>, <<"master">>, ORIGIN_HEAD,
       <<"origin", "feature", "x">>, <<"origin", "foo">>, <<"origin", "master">>,
       <<"x">> >>

NameRank(n) == CHOOSE i \in 1..Len(NameOrder) : NameOrder[i] = n

\* remotes/mod.rs:19
DEFAULT_REMOTE_NAME == "origin"

\* A remote whose name is not valid UTF-8: StringArray::iter yields None for it.
NonUtf8 == "\\xff"
RemoteNames == {DEFAULT_REMOTE_NAME, "alternate", "second", "someremote", NonUtf8}

HEADS == <<"refs", "heads">>
REMOTES == <<"refs", "remotes">>
HEAD_FILE == <<"HEAD">>

NoCommit == <<>>
NoName == <<>>

Max(S) == CHOOSE x \in S : \A y \in S : y <= x

\* ------------------------------------------------------------ the results

Ok == [kind |-> "Ok", msg |-> ""]
ErrNoHead == [kind |-> "NoHead", msg |-> ""]
ErrNoDefaultRemoteFound == [kind |-> "NoDefaultRemoteFound", msg |-> ""]
ErrUncommittedChanges == [kind |-> "UncommittedChanges", msg |-> ""]
ErrGeneric(m) == [kind |-> "Generic", msg |-> m]
\* Error::Git(e): an error of the git library, passed through by `?`.
ErrGit(code) == [kind |-> "Git", msg |-> code]

IsErr(res) == res.kind # "Ok"

\* ---------------------------------------------------------------- commits

\* The tree of a commit: the content of each file (0: the file is absent).
Tree(c) ==
    [f \in Files |->
        LET idx == {i \in 1..Len(c) : c[i][1] = f}
        IN  IF idx = {} THEN 0 ELSE c[Max(idx)][2]]

IsPrefix(a, b) == Len(a) <= Len(b) /\ SubSeq(b, 1, Len(a)) = a

\* The merge base of two histories with a common root: the longest common prefix.
MergeBaseLen(a, b) ==
    Max({k \in 0..Len(a) : k <= Len(b) /\ SubSeq(a, 1, k) = SubSeq(b, 1, k)})

\* ------------------------------------------------------------------ state

VARIABLES
    refs,             \* local branches: name -> top commit
    remote_refs,      \* remote-tracking branches: name -> top commit
    upstream,         \* branch.<name>.remote/merge: local name -> remote branch name
    head,             \* HEAD: symbolic (to a branch, existing or unborn) or detached
    dirty,            \* the status scan (ignored files excluded) is non-empty
    index_conflicts,  \* the index has unresolved conflicts
    rebase,           \* the rebase state the git library keeps on disk
    remotes,          \* the configured remotes, in the store's order
    origin_head,      \* the branch refs/remotes/origin/HEAD points to, if any
    made,             \* commits the environment has created so far
    last              \* the last call: operation, argument, result, session log

vars == <<refs, remote_refs, upstream, head, dirty, index_conflicts, rebase,
          remotes, origin_head, made, last>>

NoRebase ==
    [active |-> FALSE, orig_head_name |-> NoName, orig_head_id |-> NoCommit,
     onto |-> NoCommit, ops |-> <<>>, current |-> 0]

\* The repository as one value, for the operators below.
Repo ==
    [refs |-> refs, remote_refs |-> remote_refs, upstream |-> upstream,
     head |-> head, dirty |-> dirty, index_conflicts |-> index_conflicts,
     rebase |-> rebase, remotes |-> remotes, origin_head |-> origin_head]

Install(r) ==
    /\ refs' = r.refs
    /\ remote_refs' = r.remote_refs
    /\ upstream' = r.upstream
    /\ head' = r.head
    /\ dirty' = r.dirty
    /\ index_conflicts' = r.index_conflicts
    /\ rebase' = r.rebase
    /\ remotes' = r.remotes
    /\ origin_head' = r.origin_head

Symbolic(name) == [kind |-> "symbolic", name |-> name, id |-> NoCommit]
Detached(id) == [kind |-> "detached", name |-> NoName, id |-> id]

\* Function update that may extend the domain.
Put(f, k, v) == [x \in DOMAIN f \cup {k} |-> IF x = k THEN v ELSE f[x]]
Drop(f, k) == [x \in DOMAIN f \ {k} |-> f[x]]

\* The commit HEAD resolves to, NoCommit when HEAD is unborn.
HeadCommit(r) ==
    IF r.head.kind = "detached" THEN r.head.id
    ELSE IF r.head.name \in DOMAIN r.refs THEN r.refs[r.head.name]
    ELSE NoCommit

\* --------------------------------------------- the git library's primitives

IsBranchRef(refname) == Len(refname) > 2 /\ SubSeq(refname, 1, 2) = HEADS
IsRemoteRef(refname) == Len(refname) > 2 /\ SubSeq(refname, 1, 2) = REMOTES
ShortName(refname) == SubSeq(refname, 3, Len(refname))

\* Repository::find_reference: the reference exists.  HEAD itself always does.
RefExists(r, refname) ==
    \/ refname = HEAD_FILE
    \/ IsBranchRef(refname) /\ ShortName(refname) \in DOMAIN r.refs
    \/ IsRemoteRef(refname) /\ ShortName(refname) \in DOMAIN r.remote_refs

\* The commit a branch or remote-tracking reference points to.
RefTarget(r, refname) ==
    IF IsBranchRef(refname) THEN r.refs[ShortName(refname)]
    ELSE r.remote_refs[ShortName(refname)]

\* Every commit of the object database: the ancestors of every reference, of
\* HEAD and of the commits a rebase in progress still names.
Commits(r) ==
    LET tips == {r.refs[b] : b \in DOMAIN r.refs}
                \cup {r.remote_refs[b] : b \in DOMAIN r.remote_refs}
                \cup {HeadCommit(r), r.rebase.orig_head_id}
    IN  UNION {{SubSeq(t, 1, k) : k \in 1..Len(t)} : t \in tips}

\* Repository::head: the reference HEAD resolves to.  A detached HEAD is the
\* reference named "HEAD"; an unborn branch is an error.
repo_head(r) ==
    IF r.head.kind = "detached"
    THEN [res |-> Ok, name |-> HEAD_FILE]
    ELSE IF r.head.name \in DOMAIN r.refs
    THEN [res |-> Ok, name |-> HEADS \o r.head.name]
    ELSE [res |-> ErrGit("UnbornBranch"), name |-> NoName]

\* Repository::set_head.  An existing branch makes HEAD symbolic, any other
\* existing reference detaches HEAD at its target, and a missing reference
\* under refs/heads makes HEAD point to that unborn branch.  The name "HEAD"
\* finds HEAD itself: detaching at the target of a symbolic HEAD (it has
\* none) fails, and detaching at a detached HEAD's own target changes nothing.
set_head(r, refname) ==
    IF refname = HEAD_FILE
    THEN IF r.head.kind = "symbolic"
         THEN [res |-> ErrGit("Invalid"), repo |-> r]
         ELSE [res |-> Ok, repo |-> r]
    ELSE IF RefExists(r, refname)
    THEN IF IsBranchRef(refname)
         THEN [res |-> Ok, repo |-> [r EXCEPT !.head = Symbolic(ShortName(refname))]]
         ELSE [res |-> Ok, repo |-> [r EXCEPT !.head = Detached(RefTarget(r, refname))]]
    ELSE IF IsBranchRef(refname)
    THEN [res |-> Ok, repo |-> [r EXCEPT !.head = Symbolic(ShortName(refname))]]
    ELSE [res |-> ErrGit("NotFound"), repo |-> r]

\* Repository::checkout_head with force: fails on an unborn HEAD, otherwise
\* makes the working tree and the index those of HEAD's commit.
checkout_head(r) ==
    IF HeadCommit(r) = NoCommit
    THEN [res |-> ErrGit("UnbornBranch"), repo |-> r]
    ELSE [res |-> Ok, repo |-> [r EXCEPT !.dirty = FALSE, !.index_conflicts = FALSE]]

\* Branch::is_head: HEAD resolves, and to this local branch.
is_head(r, name) ==
    /\ r.head.kind = "symbolic"
    /\ r.head.name = name
    /\ name \in DOMAIN r.refs

\* Branch::upstream: the configured upstream, when its reference exists.
HasUpstream(r, name) ==
    /\ name \in DOMAIN r.upstream
    /\ \/ r.upstream[name] \in DOMAIN r.remote_refs
       \/ r.upstream[name] \in DOMAIN r.refs

UpstreamCommit(r, name) ==
    IF r.upstream[name] \in DOMAIN r.remote_refs
    THEN r.remote_refs[r.upstream[name]]
    ELSE r.refs[r.upstream[name]]

\* Repository::branch(name, commit, force = false): the name is joined to
\* refs/heads/, which drops the leading separators of the name.
CanonicalBranchName(name) == IF name[1] = "" THEN Tail(name) ELSE name

repo_branch(r, name, commit) ==
    LET n == CanonicalBranchName(name)
    IN  IF n \in DOMAIN r.refs
        THEN [res |-> ErrGit("Exists"), repo |-> r, name |-> n]
        ELSE [res |-> Ok, repo |-> [r EXCEPT !.refs = Put(r.refs, n, commit)],
              name |-> n]

\* Branch::set_upstream(Some(upstream_name)): the name must be that of a
\* local branch or of a remote-tracking branch of a configured remote.
set_upstream(r, name, upstream_name) ==
    IF \/ upstream_name \in DOMAIN r.refs
       \/ /\ upstream_name \in DOMAIN r.remote_refs
          /\ \E i \in 1..Len(r.remotes) : r.remotes[i] = upstream_name[1]
    THEN [res |-> Ok,
          repo |-> [r EXCEPT !.upstream = Put(r.upstream, name, upstream_name)]]
    ELSE [res |-> ErrGit("NotFound"), repo |-> r]

\* --------------------------------------------------------- remotes/mod.rs

\* StringArray::iter: None for a name that is not valid UTF-8.
IterItem(name) == IF name = NonUtf8 THEN "None" ELSE name

\* get_default_remote_in_repo looking for origin in the first place only.
get_default_remote_in_repo_first(rs) ==
    IF Len(rs) >= 1 /\ IterItem(rs[1]) = DEFAULT_REMOTE_NAME
    THEN [res |-> Ok, name |-> DEFAULT_REMOTE_NAME]
    ELSE IF Len(rs) = 1
    THEN IF IterItem(rs[1]) = "None"
         THEN [res |-> ErrGeneric("no remote found"), name |-> ""]
         ELSE [res |-> Ok, name |-> rs[1]]
    ELSE [res |-> ErrNoDefaultRemoteFound, name |-> ""]

get_default_remote_in_repo(rs) ==
    LET found_origin == \E i \in 1..Len(rs) : IterItem(rs[i]) = DEFAULT_REMOTE_NAME
    IN  IF found_origin
        THEN [res |-> Ok, name |-> DEFAULT_REMOTE_NAME]
        ELSE IF Len(rs) = 1
        THEN IF IterItem(rs[1]) = "None"
             THEN [res |-> ErrGeneric("no remote found"), name |-> ""]
             ELSE [res |-> Ok, name |-> rs[1]]
        ELSE [res |-> ErrNoDefaultRemoteFound, name |-> ""]

\* ---------------------------------------------------------- branch/mod.rs

\* Branch::name()?.unwrap_or(""): None, so "", for a name that is not valid
\* UTF-8.
name_or_empty(b) ==
    IF \E i \in 1..Len(b) : b[i] = NonUtf8 THEN <<"">> ELSE b

\* get_branch_name_repo returning the first branch, flagged as HEAD or not.
get_branch_name_repo_first(r) ==
    IF r.refs # <<>>
    THEN [res |-> Ok, name |-> name_or_empty(CHOOSE b \in DOMAIN r.refs : TRUE)]
    ELSE [res |-> ErrNoHead, name |-> NoName]

\* The branch HEAD points to: the first branch flagged as HEAD.
get_branch_name_repo(r) ==
    IF \E b \in DOMAIN r.refs : is_head(r, b)
    THEN [res |-> Ok,
          name |-> name_or_empty(CHOOSE b \in DOMAIN r.refs : is_head(r, b))]
    ELSE [res |-> ErrNoHead, name |-> NoName]

\* Repository::branches(Some(filter)): every reference of the kind, the
\* symbolic refs/remotes/origin/HEAD included, whether it resolves or not.
BranchNames(r, local) ==
    IF local THEN DOMAIN r.refs
    ELSE DOMAIN r.remote_refs
         \cup (IF r.origin_head = NoName THEN {} ELSE {ORIGIN_HEAD})

\* branch.get().peel_to_commit(): an error for a symbolic reference whose
\* target is gone.
peel_to_commit(r, local, n) ==
    IF local THEN [res |-> Ok, id |-> r.refs[n]]
    ELSE IF n # ORIGIN_HEAD THEN [res |-> Ok, id |-> r.remote_refs[n]]
    ELSE IF r.origin_head \in DOMAIN r.remote_refs
    THEN [res |-> Ok, id |-> r.remote_refs[r.origin_head]]
    ELSE [res |-> ErrGit("NotFound"), id |-> NoCommit]

\* utils::bytes2string: the name as a string; a name that is not valid UTF-8
\* has no string.
bytes2string(name) ==
    IF \E i \in 1..Len(name) : name[i] = NonUtf8
    THEN [res |-> ErrGeneric("utf8"), s |-> NoName]
    ELSE [res |-> Ok, s |-> name]

\* The closure mapped over the branches: Ok(BranchInfo) or the first error.
\* branch_info marking as head every branch at HEAD's commit, in place of
\* `branch.is_head()`.
branch_info_head_by_commit(r, local, n) ==
    LET top_commit == peel_to_commit(r, local, n)
        reference == bytes2string((IF local THEN HEADS ELSE REMOTES) \o n)
        name == bytes2string(n)
        res == IF IsErr(top_commit.res) THEN top_commit.res
               ELSE IF IsErr(reference.res) THEN reference.res
               ELSE name.res
    IN  [res |-> res, name |-> name.s, reference |-> reference.s,
         top_commit |-> top_commit.id,
         is_head |-> local /\ top_commit.id = HeadCommit(r),
         has_upstream |-> local /\ HasUpstream(r, n)]

branch_info(r, local, n) ==
    LET top_commit == peel_to_commit(r, local, n)
        reference == bytes2string((IF local THEN HEADS ELSE REMOTES) \o n)
        name == bytes2string(n)
        res == IF IsErr(top_commit.res) THEN top_commit.res
               ELSE IF IsErr(reference.res) THEN reference.res
               ELSE name.res
    IN  [res |-> res, name |-> name.s, reference |-> reference.s,
         top_commit |-> top_commit.id,
         is_head |-> local /\ is_head(r, n),
         has_upstream |-> local /\ HasUpstream(r, n)]

\* sort_by(|a, b| a.name.cmp(&b.name)) of entries with distinct names.
SortByName(S) ==
    [i \in 1..Cardinality(S) |->
        CHOOSE e \in S :
            Cardinality({d \in S : NameRank(d.name) < NameRank(e.name)}) = i - 1]

\* get_branches_info collecting into a Result: the first error fails the call.
get_branches_info_collect(r, local) ==
    LET mapped == {branch_info(r, local, n) : n \in BranchNames(r, local)}
    IN  IF \E e \in mapped : IsErr(e.res)
        THEN [res |-> (CHOOSE e \in mapped : IsErr(e.res)).res, branches |-> <<>>]
        ELSE [res |-> Ok, branches |-> SortByName(mapped)]

\* The entries that are Ok (filter_map(Result::ok)), sorted by name.
get_branches_info(r, local) ==
    LET mapped == {branch_info(r, local, n) : n \in BranchNames(r, local)}
    IN  [res |-> Ok, branches |-> SortByName({e \in mapped : ~IsErr(e.res)})]

\* utils::get_head_repo: the commit HEAD resolves to.
get_head_repo(r) ==
    IF HeadCommit(r) = NoCommit
    THEN [res |-> ErrNoHead, id |-> NoCommit]
    ELSE [res |-> Ok, id |-> HeadCommit(r)]

\* Repository::graph_ahead_behind(local, upstream): the commits of each side
\* after the merge base.
graph_ahead_behind(local, upstream_commit) ==
    <<Len(local) - MergeBaseLen(local, upstream_commit),
      Len(upstream_commit) - MergeBaseLen(local, upstream_commit)>>

\* branch_compare_upstream with the two commits passed the other way round.
branch_compare_upstream_swapped(r, branch) ==
    IF branch \notin DOMAIN r.refs
    THEN [res |-> ErrGit("NotFound"), ahead |-> 0, behind |-> 0]
    ELSE IF ~HasUpstream(r, branch)
    THEN [res |-> ErrGit("NotFound"), ahead |-> 0, behind |-> 0]
    ELSE LET counts == graph_ahead_behind(UpstreamCommit(r, branch), r.refs[branch])
         IN  [res |-> Ok, ahead |-> counts[1], behind |-> counts[2]]

\* The counts of a failed call are never read.
branch_compare_upstream(r, branch) ==
    IF branch \notin DOMAIN r.refs
    THEN [res |-> ErrGit("NotFound"), ahead |-> 0, behind |-> 0]
    ELSE IF ~HasUpstream(r, branch)
    THEN [res |-> ErrGit("NotFound"), ahead |-> 0, behind |-> 0]
    ELSE LET branch_commit == r.refs[branch]
             upstream_commit == UpstreamCommit(r, branch)
             counts == graph_ahead_behind(branch_commit, upstream_commit)
         IN  [res |-> Ok, ahead |-> counts[1], behind |-> counts[2]]

\* branch_set_upstream without the test for an existing upstream.
branch_set_upstream_always(r, branch_name) ==
    IF branch_name \notin DOMAIN r.refs
    THEN [res |-> ErrGit("NotFound"), repo |-> r]
    ELSE LET remote == get_default_remote_in_repo(r.remotes)
         IN  IF IsErr(remote.res)
             THEN [res |-> remote.res, repo |-> r]
             ELSE set_upstream(r, branch_name, <<remote.name>> \o branch_name)

branch_set_upstream(r, branch_name) ==
    IF branch_name \notin DOMAIN r.refs
    THEN [res |-> ErrGit("NotFound"), repo |-> r]
    ELSE IF HasUpstream(r, branch_name)
    THEN [res |-> Ok, repo |-> r]
    ELSE LET remote == get_default_remote_in_repo(r.remotes)
         IN  IF IsErr(remote.res)
             THEN [res |-> remote.res, repo |-> r]
             ELSE set_upstream(r, branch_name, <<remote.name>> \o branch_name)

\* The rollback of a failed checkout: HEAD back to the reference found
\* before, then the checkout's error; the rollback's own error comes first.
restore_head(r, cur_name, e) ==
    LET back == set_head(r, cur_name)
    IN  IF IsErr(back.res)
        THEN [res |-> back.res, repo |-> back.repo]
        ELSE [res |-> ErrGit(e.msg), repo |-> back.repo]

\* checkout_branch without the status scan.
checkout_branch_unchecked(r, branch_ref) ==
    LET cur_ref == repo_head(r)
        sh == set_head(r, branch_ref)
        co == checkout_head(sh.repo)
    IN  IF IsErr(cur_ref.res) THEN [res |-> cur_ref.res, repo |-> r]
        ELSE IF IsErr(sh.res) THEN [res |-> sh.res, repo |-> r]
        ELSE IF IsErr(co.res) THEN restore_head(sh.repo, cur_ref.name, co.res)
        ELSE [res |-> Ok, repo |-> co.repo]

checkout_branch(r, branch_ref) ==
    LET cur_ref == repo_head(r)
        sh == set_head(r, branch_ref)
        co == checkout_head(sh.repo)
    IN  IF IsErr(cur_ref.res) THEN [res |-> cur_ref.res, repo |-> r]
        ELSE IF r.dirty THEN [res |-> ErrUncommittedChanges, repo |-> r]
        ELSE IF IsErr(sh.res) THEN [res |-> sh.res, repo |-> r]
        ELSE IF IsErr(co.res) THEN restore_head(sh.repo, cur_ref.name, co.res)
        ELSE [res |-> Ok, repo |-> co.repo]

\* branch.name[rfind('/')..]: the last segment with the '/' before it.
LocalNameOf(name) ==
    IF Len(name) > 1 THEN <<"", name[Len(name)]>> ELSE name

checkout_remote_branch(r, branch) ==
    LET cur_ref == repo_head(r)
        name == LocalNameOf(branch.name)
        nb == repo_branch(r, name, branch.top_commit)
        up == set_upstream(nb.repo, nb.name, branch.name)
        sh == set_head(up.repo, HEADS \o nb.name)
        co == checkout_head(sh.repo)
    IN  IF IsErr(cur_ref.res) THEN [res |-> cur_ref.res, repo |-> r]
        ELSE IF r.dirty THEN [res |-> ErrUncommittedChanges, repo |-> r]
        ELSE IF branch.top_commit \notin Commits(r)
        THEN [res |-> ErrGit("NotFound"), repo |-> r]
        ELSE IF IsErr(nb.res) THEN [res |-> nb.res, repo |-> r]
        ELSE IF IsErr(up.res) THEN [res |-> up.res, repo |-> up.repo]
        ELSE IF IsErr(sh.res) THEN [res |-> sh.res, repo |-> sh.repo]
        ELSE IF IsErr(co.res) THEN restore_head(sh.repo, cur_ref.name, co.res)
        ELSE [res |-> Ok, repo |-> co.repo]

\* delete_branch swallowing the error of a reference that is not found.
delete_branch_ignore_missing(r, branch_ref) ==
    IF ~RefExists(r, branch_ref)
    THEN [res |-> Ok, repo |-> r]
    ELSE IF IsBranchRef(branch_ref) /\ is_head(r, ShortName(branch_ref))
    THEN [res |-> ErrGeneric("You cannot be on the branch you want to delete"),
          repo |-> r]
    ELSE [res |-> Ok,
          repo |-> [r EXCEPT !.refs = Drop(r.refs, ShortName(branch_ref)),
                             !.upstream = Drop(r.upstream, ShortName(branch_ref))]]

\* Branch::delete: only a branch, and never the one HEAD points to; the
\* branch's configuration goes with it.
delete_branch(r, branch_ref) ==
    IF ~RefExists(r, branch_ref)
    THEN [res |-> ErrGit("NotFound"), repo |-> r]
    ELSE IF IsBranchRef(branch_ref) /\ is_head(r, ShortName(branch_ref))
    THEN [res |-> ErrGeneric("You cannot be on the branch you want to delete"),
          repo |-> r]
    ELSE IF IsBranchRef(branch_ref)
    THEN [res |-> Ok,
          repo |-> [r EXCEPT !.refs = Drop(r.refs, ShortName(branch_ref)),
                             !.upstream = Drop(r.upstream, ShortName(branch_ref))]]
    ELSE IF IsRemoteRef(branch_ref)
    THEN [res |-> Ok,
          repo |-> [r EXCEPT !.remote_refs = Drop(r.remote_refs, ShortName(branch_ref))]]
    ELSE [res |-> ErrGit("Invalid"), repo |-> r]

\* create_branch that never repoints HEAD.
create_branch_head_left(r, name) ==
    LET head_id == get_head_repo(r)
        nb == repo_branch(r, name, head_id.id)
    IN  IF IsErr(head_id.res) THEN [res |-> head_id.res, repo |-> r]
        ELSE IF IsErr(nb.res) THEN [res |-> nb.res, repo |-> r]
        ELSE [res |-> Ok, repo |-> nb.repo]

create_branch(r, name) ==
    LET head_id == get_head_repo(r)
        nb == repo_branch(r, name, head_id.id)
        sh == set_head(nb.repo, HEADS \o nb.name)
    IN  IF IsErr(head_id.res) THEN [res |-> head_id.res, repo |-> r]
        ELSE IF IsErr(nb.res) THEN [res |-> nb.res, repo |-> r]
        ELSE [res |-> sh.res, repo |-> sh.repo]

\* --------------------------------------------------- branch/merge_rebase.rs

Front(c) == SubSeq(c, 1, Len(c) - 1)

\* Repository::rebase(None, Some(upstream), None, None): refuses while a
\* rebase is in progress or the index or working tree has changes; the
\* operations are the commits of HEAD's branch that are not ancestors of
\* upstream, oldest first; HEAD is detached at upstream.
rebase_init(r, upstream_commit) ==
    LET tip == HeadCommit(r)
        base == MergeBaseLen(tip, upstream_commit)
    IN  IF r.rebase.active
        THEN [res |-> ErrGit("RebaseInProgress"), repo |-> r]
        ELSE IF r.dirty
        THEN [res |-> ErrGit("Uncommitted"), repo |-> r]
        ELSE [res |-> Ok,
              repo |-> [r EXCEPT
                  !.rebase = [active |-> TRUE,
                              orig_head_name |-> HEADS \o r.head.name,
                              orig_head_id |-> tip,
                              onto |-> upstream_commit,
                              ops |-> [i \in 1..(Len(tip) - base) |->
                                          SubSeq(tip, 1, base + i)],
                              current |-> 0],
                  !.head = Detached(upstream_commit)]]

\* Rebase::next: the three-way merge of the operation's change into HEAD's
\* tree (ancestor: the tree of the operation's parent).  The index is
\* conflicted when HEAD changed the file too, to another content.
rebase_next(r) ==
    LET i == r.rebase.current + 1
        op == r.rebase.ops[i]
        f == op[Len(op)][1]
        v == op[Len(op)][2]
        ancestor == Tree(Front(op))[f]
        ours == Tree(HeadCommit(r))[f]
    IN  [r EXCEPT !.rebase.current = i,
                  !.index_conflicts = (ours # ancestor /\ ours # v)]

\* Rebase::commit: a commit of the merged change on top of HEAD; an error
\* when the merged tree is HEAD's tree (the patch is already applied).
rebase_commit(r) ==
    LET op == r.rebase.ops[r.rebase.current]
        change == op[Len(op)]
    IN  IF Tree(HeadCommit(r))[change[1]] = change[2]
        THEN [res |-> ErrGit("Applied"), repo |-> r]
        ELSE [res |-> Ok,
              repo |-> [r EXCEPT !.head = Detached(HeadCommit(r) \o <<change>>)]]

\* Rebase::abort: HEAD back to the original branch, index and working tree
\* reset to the original commit, the rebase state removed.
rebase_abort(r) ==
    LET name == ShortName(r.rebase.orig_head_name)
    IN  [r EXCEPT !.head = Symbolic(name),
                  !.refs = Put(r.refs, name, r.rebase.orig_head_id),
                  !.index_conflicts = FALSE,
                  !.dirty = FALSE,
                  !.rebase = NoRebase]

\* Rebase::finish: the original branch moves to the last replayed commit,
\* HEAD points to the branch again, the rebase state is removed.
rebase_finish(r) ==
    LET name == ShortName(r.rebase.orig_head_name)
    IN  [r EXCEPT !.refs = Put(r.refs, name, HeadCommit(r)),
                  !.head = Symbolic(name),
                  !.rebase = NoRebase]

\* commit::signature_allow_undefined_name: falls back to an anonymous
\* signature when no identity is configured.
signature_allow_undefined_name(r) == [res |-> Ok, name |-> "unknown"]

\* The error of a detected conflict.
ConflictError == ErrGeneric("conflicts while merging")

\* The loop returning the conflict error without `rebase.abort()`.
RECURSIVE rebase_loop_no_abort(_, _)
rebase_loop_no_abort(r, log) ==
    IF r.rebase.current >= Len(r.rebase.ops)
    THEN [res |-> Ok, repo |-> rebase_finish(r), log |-> log \o <<"finish">>]
    ELSE LET advanced == rebase_next(r)
             committed == rebase_commit(advanced)
         IN  IF advanced.index_conflicts
             THEN [res |-> ConflictError, repo |-> advanced,
                   log |-> log \o <<"next", "conflict">>]
             ELSE IF IsErr(committed.res)
             THEN [res |-> committed.res, repo |-> committed.repo,
                   log |-> log \o <<"next", "commit">>]
             ELSE rebase_loop_no_abort(committed.repo, log \o <<"next", "commit">>)

\* The loop with `rebase.commit` before the test of the index: the commit of
\* a conflicted index fails (unmerged entries) and `?` returns its error.
RECURSIVE rebase_loop_commit_first(_, _)
rebase_loop_commit_first(r, log) ==
    IF r.rebase.current >= Len(r.rebase.ops)
    THEN [res |-> Ok, repo |-> rebase_finish(r), log |-> log \o <<"finish">>]
    ELSE LET advanced == rebase_next(r)
             committed == rebase_commit(advanced)
         IN  IF advanced.index_conflicts
             THEN [res |-> ErrGit("Unmerged"), repo |-> advanced,
                   log |-> log \o <<"next", "commit">>]
             ELSE IF IsErr(committed.res)
             THEN [res |-> committed.res, repo |-> committed.repo,
                   log |-> log \o <<"next", "commit">>]
             ELSE rebase_loop_commit_first(committed.repo, log \o <<"next", "commit">>)

\* The loop going on to the next operation when `rebase.commit` fails, in
\* place of the `?`.
RECURSIVE rebase_loop_skip_failed(_, _)
rebase_loop_skip_failed(r, log) ==
    IF r.rebase.current >= Len(r.rebase.ops)
    THEN [res |-> Ok, repo |-> rebase_finish(r), log |-> log \o <<"finish">>]
    ELSE LET advanced == rebase_next(r)
             committed == rebase_commit(advanced)
         IN  IF advanced.index_conflicts
             THEN [res |-> ConflictError, repo |-> rebase_abort(advanced),
                   log |-> log \o <<"next", "conflict", "abort">>]
             ELSE IF IsErr(committed.res)
             THEN rebase_loop_skip_failed(committed.repo, log \o <<"next">>)
             ELSE rebase_loop_skip_failed(committed.repo, log \o <<"next", "commit">>)

\* The loop returning Ok after the last operation without `rebase.finish`.
RECURSIVE rebase_loop_no_finish(_, _)
rebase_loop_no_finish(r, log) ==
    IF r.rebase.current >= Len(r.rebase.ops)
    THEN [res |-> Ok, repo |-> r, log |-> log]
    ELSE LET advanced == rebase_next(r)
             committed == rebase_commit(advanced)
         IN  IF advanced.index_conflicts
             THEN [res |-> ConflictError, repo |-> rebase_abort(advanced),
                   log |-> log \o <<"next", "conflict", "abort">>]
             ELSE IF IsErr(committed.res)
             THEN [res |-> committed.res, repo |-> committed.repo,
                   log |-> log \o <<"next", "commit">>]
             ELSE rebase_loop_no_finish(committed.repo, log \o <<"next", "commit">>)

\* An `if let` in place of the `while let`: one operation, then the finish.
rebase_loop_once(r, log) ==
    IF r.rebase.current >= Len(r.rebase.ops)
    THEN [res |-> Ok, repo |-> rebase_finish(r), log |-> log \o <<"finish">>]
    ELSE LET advanced == rebase_next(r)
             committed == rebase_commit(advanced)
         IN  IF advanced.index_conflicts
             THEN [res |-> ConflictError, repo |-> rebase_abort(advanced),
                   log |-> log \o <<"next", "conflict", "abort">>]
             ELSE IF IsErr(committed.res)
             THEN [res |-> committed.res, repo |-> committed.repo,
                   log |-> log \o <<"next", "commit">>]
             ELSE [res |-> Ok, repo |-> rebase_finish(committed.repo),
                   log |-> log \o <<"next", "commit", "finish">>]

\* The `while let Some(op) = rebase.next()` loop and the finish after it.
RECURSIVE rebase_loop(_, _)
rebase_loop(r, log) ==
    IF r.rebase.current >= Len(r.rebase.ops)
    THEN [res |-> Ok, repo |-> rebase_finish(r), log |-> log \o <<"finish">>]
    ELSE LET advanced == rebase_next(r)
             committed == rebase_commit(advanced)
         IN  IF advanced.index_conflicts
             THEN [res |-> ConflictError, repo |-> rebase_abort(advanced),
                   log |-> log \o <<"next", "conflict", "abort">>]
             ELSE IF IsErr(committed.res)
             THEN [res |-> committed.res, repo |-> committed.repo,
                   log |-> log \o <<"next", "commit">>]
             ELSE rebase_loop(committed.repo, log \o <<"next", "commit">>)

\* merge_upstream_rebase without the check that the branch is HEAD's.
merge_upstream_rebase_any_branch(r, branch_name) ==
    LET opened == rebase_init(r, UpstreamCommit(r, branch_name))
    IN  IF ~HasUpstream(r, branch_name)
        THEN [res |-> ErrGit("NotFound"), repo |-> r, log |-> <<>>]
        ELSE IF IsErr(opened.res)
        THEN [res |-> opened.res, repo |-> r, log |-> <<"rebase">>]
        ELSE rebase_loop(opened.repo, <<"rebase">>)

\* merge_upstream_rebase opening the rebase in progress, when there is one,
\* in place of a new one.
merge_upstream_rebase_resume(r, branch_name) ==
    LET cur == get_branch_name_repo(r)
        opened == rebase_init(r, UpstreamCommit(r, branch_name))
    IN  IF IsErr(cur.res)
        THEN [res |-> cur.res, repo |-> r, log |-> <<>>]
        ELSE IF cur.name # branch_name
        THEN [res |-> ErrGeneric("can only rebase in head branch"), repo |-> r,
              log |-> <<>>]
        ELSE IF ~HasUpstream(r, branch_name)
        THEN [res |-> ErrGit("NotFound"), repo |-> r, log |-> <<>>]
        ELSE IF r.rebase.active
        THEN rebase_loop(r, <<"rebase">>)
        ELSE IF IsErr(opened.res)
        THEN [res |-> opened.res, repo |-> r, log |-> <<"rebase">>]
        ELSE rebase_loop(opened.repo, <<"rebase">>)

\* merge_upstream_rebase passing the branch's own commit to repo.rebase in
\* place of the upstream's.
merge_upstream_rebase_onto_branch(r, branch_name) ==
    LET cur == get_branch_name_repo(r)
        opened == rebase_init(r, r.refs[branch_name])
    IN  IF IsErr(cur.res)
        THEN [res |-> cur.res, repo |-> r, log |-> <<>>]
        ELSE IF cur.name # branch_name
        THEN [res |-> ErrGeneric("can only rebase in head branch"), repo |-> r,
              log |-> <<>>]
        ELSE IF ~HasUpstream(r, branch_name)
        THEN [res |-> ErrGit("NotFound"), repo |-> r, log |-> <<>>]
        ELSE IF IsErr(opened.res)
        THEN [res |-> opened.res, repo |-> r, log |-> <<"rebase">>]
        ELSE rebase_loop(opened.repo, <<"rebase">>)

\* merge_upstream_rebase returning Ok at once, with no rebase, when the
\* branch has no commit ahead of its upstream.
merge_upstream_rebase_skip_empty(r, branch_name) ==
    LET cur == get_branch_name_repo(r)
        opened == rebase_init(r, UpstreamCommit(r, branch_name))
    IN  IF IsErr(cur.res)
        THEN [res |-> cur.res, repo |-> r, log |-> <<>>]
        ELSE IF cur.name # branch_name
        THEN [res |-> ErrGeneric("can only rebase in head branch"), repo |-> r,
              log |-> <<>>]
        ELSE IF ~HasUpstream(r, branch_name)
        THEN [res |-> ErrGit("NotFound"), repo |-> r, log |-> <<>>]
        ELSE IF IsErr(opened.res)
        THEN [res |-> opened.res, repo |-> r, log |-> <<"rebase">>]
        ELSE IF Len(opened.repo.rebase.ops) = 0
        THEN [res |-> Ok, repo |-> r, log |-> <<"rebase", "finish">>]
        ELSE rebase_loop(opened.repo, <<"rebase">>)

merge_upstream_rebase(r, branch_name) ==
    LET cur == get_branch_name_repo(r)
        opened == rebase_init(r, UpstreamCommit(r, branch_name))
        signature == signature_allow_undefined_name(opened.repo)
    IN  IF IsErr(cur.res)
        THEN [res |-> cur.res, repo |-> r, log |-> <<>>]
        ELSE IF cur.name # branch_name
        THEN [res |-> ErrGeneric("can only rebase in head branch"), repo |-> r,
              log |-> <<>>]
        ELSE IF ~HasUpstream(r, branch_name)
        THEN [res |-> ErrGit("NotFound"), repo |-> r, log |-> <<>>]
        ELSE IF IsErr(opened.res)
        THEN [res |-> opened.res, repo |-> r, log |-> <<"rebase">>]
        ELSE IF IsErr(signature.res)
        THEN [res |-> signature.res, repo |-> opened.repo, log |-> <<"rebase">>]
        ELSE rebase_loop(opened.repo, <<"rebase">>)

\* ------------------------------------------------------------ the inputs

\* The reference names callers pass: the local branches, a branch that never
\* exists, and the remote-tracking branches.
RefInputs ==
    {HEADS \o n : n \in LocalNames} \cup {HEADS \o <<"foobar">>}
    \cup {REMOTES \o n : n \in RemoteBranchNames}

\* The references callers pass to delete_branch.
DeleteInputs == {HEADS \o n : n \in LocalNames} \cup {HEADS \o <<"foobar">>}

\* The BranchInfo values callers pass to checkout_remote_branch: a snapshot
\* of a remote-tracking branch, current or stale (taken before the reference
\* went away; its commit is still in the object database).
BranchInfoInputs(r) ==
    {[name |-> n, top_commit |-> r.remote_refs[n]] : n \in DOMAIN r.remote_refs}
    \cup {[name |-> n, top_commit |-> c] :
             n \in RemoteBranchNames \ DOMAIN r.remote_refs,
             c \in {r.refs[b] : b \in DOMAIN r.refs}}

\* The record of a call: for merge_upstream_rebase also the calls it made on
\* the rebase session and the branch's tip before the call.
Called(op, arg, res, log) ==
    [op |-> op, arg |-> arg, res |-> res, log |-> log, old |-> NoCommit]

\* ------------------------------------------------------------------- Init

\* A fresh clone of an empty bare repository: HEAD points to the unborn
\* master, origin is the one remote.
Init ==
    /\ refs = <<>>
    /\ remote_refs = <<>>
    /\ upstream = <<>>
    /\ head = Symbolic(<<"master">>)
    /\ dirty = FALSE
    /\ index_conflicts = FALSE
    /\ rebase = NoRebase
    /\ remotes = <<DEFAULT_REMOTE_NAME>>
    /\ origin_head = NoName
    /\ made = 0
    /\ last = Called("init", <<>>, Ok, <<>>)

\* ------------------------------------------------ the environment's steps

\* write_commit_file: a commit of one changed file on the branch HEAD points to.
WriteCommitFile(ch, max) ==
    /\ head.kind = "symbolic"
    /\ head.name \in LocalNames
    /\ ~rebase.active
    /\ made < max
    /\ Tree(HeadCommit(Repo))[ch[1]] # ch[2]
    /\ refs' = Put(refs, head.name, HeadCommit(Repo) \o <<ch>>)
    /\ made' = made + 1
    /\ last' = Called("write_commit_file", <<>>, Ok, <<>>)
    /\ UNCHANGED <<remote_refs, upstream, head, dirty, index_conflicts, rebase, remotes,
                   origin_head>>

\* push of the current branch to origin (a fast-forward of the remote
\* branch), which then sets the branch's upstream.
Push ==
    LET b == head.name
        rb == <<DEFAULT_REMOTE_NAME>> \o b
        pushed == [Repo EXCEPT !.remote_refs = Put(remote_refs, rb, refs[b])]
        out == branch_set_upstream(pushed, b)
    IN  /\ is_head(Repo, b)
        /\ rb \in RemoteBranchNames
        /\ rb \in DOMAIN remote_refs => IsPrefix(remote_refs[rb], refs[b])
        /\ Install(out.repo)
        /\ last' = Called("push", <<>>, out.res, <<>>)
        /\ UNCHANGED made

\* fetch_origin after another clone pushed one more commit to the branch
\* (the first one, when the remote had none).
FetchOrigin(rb, ch, max) ==
    LET tip == IF rb \in DOMAIN remote_refs THEN remote_refs[rb] ELSE NoCommit
    IN  /\ made < max
        /\ Tree(tip)[ch[1]] # ch[2]
        /\ remote_refs' = Put(remote_refs, rb, tip \o <<ch>>)
        /\ made' = made + 1
        /\ last' = Called("fetch_origin", <<>>, Ok, <<>>)
        /\ UNCHANGED <<refs, upstream, head, dirty, index_conflicts, rebase, remotes,
                       origin_head>>

\* The user edits or stages a file, or reverts that.
ModifyWorkTree ==
    /\ dirty' = ~dirty
    /\ last' = Called("modify", <<>>, Ok, <<>>)
    /\ UNCHANGED <<refs, remote_refs, upstream, head, index_conflicts, rebase,
                   remotes, origin_head, made>>

\* --------------------------------------------------- the public operations

GetBranchName ==
    /\ last' = Called("get_branch_name", get_branch_name_repo(Repo).name,
                      get_branch_name_repo(Repo).res, <<>>)
    /\ UNCHANGED <<refs, remote_refs, upstream, head, dirty, index_conflicts,
                   rebase, remotes, origin_head, made>>

CreateBranch(name) ==
    LET out == create_branch(Repo, name)
    IN  /\ Install(out.repo)
        /\ last' = Called("create_branch", name, out.res, <<>>)
        /\ UNCHANGED made

DeleteBranch(branch_ref) ==
    LET out == delete_branch(Repo, branch_ref)
    IN  /\ Install(out.repo)
        /\ last' = Called("delete_branch", branch_ref, out.res, <<>>)
        /\ UNCHANGED made

CheckoutBranch(branch_ref) ==
    LET out == checkout_branch(Repo, branch_ref)
    IN  /\ Install(out.repo)
        /\ last' = Called("checkout_branch", branch_ref, out.res, <<>>)
        /\ UNCHANGED made

CheckoutRemoteBranch(branch) ==
    LET out == checkout_remote_branch(Repo, branch)
    IN  /\ Install(out.repo)
        /\ last' = Called("checkout_remote_branch", branch.name, out.res, <<>>)
        /\ UNCHANGED made

BranchSetUpstream(name) ==
    LET out == branch_set_upstream(Repo, name)
    IN  /\ Install(out.repo)
        /\ last' = Called("branch_set_upstream", name, out.res, <<>>)
        /\ UNCHANGED made

\* A successful call logs the BranchCompare it returns, a failed one nothing.
BranchCompareUpstream(name) ==
    LET out == branch_compare_upstream(Repo, name)
    IN  /\ last' = Called("branch_compare_upstream", name, out.res,
                          IF out.res = Ok THEN <<out.ahead, out.behind>> ELSE <<>>)
        /\ UNCHANGED <<refs, remote_refs, upstream, head, dirty, index_conflicts,
                       rebase, remotes, origin_head, made>>

MergeUpstreamRebase(name) ==
    LET out == merge_upstream_rebase(Repo, name)
    IN  /\ Install(out.repo)
        /\ last' = [Called("merge_upstream_rebase", name, out.res, out.log)
                        EXCEPT !.old = IF name \in DOMAIN refs THEN refs[name]
                                       ELSE NoCommit]
        /\ UNCHANGED made

Next ==
    \/ \E ch \in LocalChange : WriteCommitFile(ch, MaxCommits)
    \/ Push
    \/ \E rb \in RemoteBranchNames, ch \in FetchedChange : FetchOrigin(rb, ch, MaxCommits)
    \/ ModifyWorkTree
    \/ GetBranchName
    \/ \E name \in LocalNames : CreateBranch(name)
    \/ \E branch_ref \in DeleteInputs : DeleteBranch(branch_ref)
    \/ \E branch_ref \in RefInputs : CheckoutBranch(branch_ref)
    \/ \E branch \in BranchInfoInputs(Repo) : CheckoutRemoteBranch(branch)
    \/ \E name \in LocalNames : BranchSetUpstream(name)
    \/ \E name \in LocalNames : MergeUpstreamRebase(name)

Spec == Init /\ [][Next]_vars

\* The rebase engine alone, over longer histories: one local branch and its
\* upstream.
NextRebase ==
    \/ \E ch \in Change : WriteCommitFile(ch, MaxRebaseCommits)
    \/ Push
    \/ \E ch \in Change : FetchOrigin(<<DEFAULT_REMOTE_NAME, "master">>, ch, MaxRebaseCommits)
    \/ ModifyWorkTree
    \/ BranchSetUpstream(<<"master">>)
    \/ CheckoutBranch(HEADS \o <<"master">>)
    \/ \E name \in LocalNames : MergeUpstreamRebase(name)

SpecRebase == Init /\ [][NextRebase]_vars

\* The resolution of the default remote alone, over every configuration of
\* up to MaxRemotes remotes.  The store lists remotes in byte order.
RemoteOrder == <<"alternate", DEFAULT_REMOTE_NAME, "second", "someremote", NonUtf8>>

Rank(name) == CHOOSE i \in 1..Len(RemoteOrder) : RemoteOrder[i] = name

RemoteSet(rs) == {rs[i] : i \in 1..Len(rs)}

\* Repository::remotes of a configuration with the remotes S.
Listed(S) ==
    [i \in 1..Cardinality(S) |->
        CHOOSE n \in S : Cardinality({m \in S : Rank(m) < Rank(n)}) = i - 1]

\* git remote add / git remote remove.
AddRemote(name) ==
    /\ name \notin RemoteSet(remotes)
    /\ Len(remotes) < MaxRemotes
    /\ remotes' = Listed(RemoteSet(remotes) \cup {name})
    /\ last' = Called("remote_add", <<name>>, Ok, <<>>)
    /\ UNCHANGED <<refs, remote_refs, upstream, head, dirty, index_conflicts,
                   rebase, origin_head, made>>

\* The remote's remote-tracking branches, its HEAD reference and the
\* upstream settings that name them go with it.
RemoveRemote(name) ==
    /\ name \in RemoteSet(remotes)
    /\ remotes' = Listed(RemoteSet(remotes) \ {name})
    /\ remote_refs' = [rb \in {x \in DOMAIN remote_refs : x[1] # name} |-> remote_refs[rb]]
    /\ upstream' = [b \in {x \in DOMAIN upstream : upstream[x][1] # name} |-> upstream[b]]
    /\ origin_head' = IF name = ORIGIN_HEAD[1] THEN NoName ELSE origin_head
    /\ last' = Called("remote_remove", <<name>>, Ok, <<>>)
    /\ UNCHANGED <<refs, head, dirty, index_conflicts, rebase, made>>

GetDefaultRemote ==
    LET out == get_default_remote_in_repo(remotes)
    IN  /\ last' = Called("get_default_remote", <<out.name>>, out.res, <<>>)
        /\ UNCHANGED <<refs, remote_refs, upstream, head, dirty, index_conflicts,
                       rebase, remotes, origin_head, made>>

\* get_remotes: `iter().flatten()` drops the names that are not valid UTF-8.
get_remotes(rs) == [res |-> Ok, names |-> SelectSeq(rs, LAMBDA n : n # NonUtf8)]

GetRemotes ==
    /\ last' = Called("get_remotes", get_remotes(remotes).names,
                      get_remotes(remotes).res, <<>>)
    /\ UNCHANGED <<refs, remote_refs, upstream, head, dirty, index_conflicts,
                   rebase, remotes, origin_head, made>>

NextRemotes ==
    \/ \E name \in RemoteNames : AddRemote(name)
    \/ \E name \in RemoteNames : RemoveRemote(name)
    \/ GetDefaultRemote

SpecRemotes == Init /\ [][NextRemotes]_vars

\* The comparison with the upstream alone, over the histories of up to
\* MaxRebaseCommits commits of a branch and its upstream, and a branch
\* without one.
NextCompare ==
    \/ \E ch \in Change : WriteCommitFile(ch, MaxRebaseCommits)
    \/ Push
    \/ \E ch \in Change : FetchOrigin(<<DEFAULT_REMOTE_NAME, "master">>, ch, MaxRebaseCommits)
    \/ CreateBranch(<<"foo">>)
    \/ \E name \in LocalNames : BranchCompareUpstream(name)

SpecCompare == Init /\ [][NextCompare]_vars

\* The upstream setting alone, over changing remotes: the branch master and
\* the remote-tracking branches fetched from the default remote.
UpstreamRemoteBranchNames == {<<"origin", "master">>, <<"alternate", "master">>}

NextUpstream ==
    \/ \E ch \in LocalChange : WriteCommitFile(ch, MaxCommits)
    \/ \E rb \in UpstreamRemoteBranchNames, ch \in FetchedChange :
           /\ get_default_remote_in_repo(remotes).res = Ok
           /\ get_default_remote_in_repo(remotes).name = rb[1]
           /\ FetchOrigin(rb, ch, MaxCommits)
    \/ \E name \in RemoteNames : AddRemote(name)
    \/ \E name \in RemoteNames : RemoveRemote(name)
    \/ \E name \in LocalNames : BranchSetUpstream(name)

SpecUpstream == Init /\ [][NextUpstream]_vars

\* The current branch's name alone, over every kind of HEAD and a branch
\* whose name is not valid UTF-8.

\* git checkout -b <name>, with a name only the command line can give.
GitCheckoutNew(name) ==
    /\ HeadCommit(Repo) # NoCommit
    /\ ~rebase.active
    /\ name \notin DOMAIN refs
    /\ refs' = Put(refs, name, HeadCommit(Repo))
    /\ head' = Symbolic(name)
    /\ last' = Called("git_checkout_new", name, Ok, <<>>)
    /\ UNCHANGED <<remote_refs, upstream, dirty, index_conflicts, rebase, remotes,
                   origin_head, made>>

NextNames ==
    \/ \E ch \in LocalChange : WriteCommitFile(ch, MaxCommits)
    \/ \E ch \in FetchedChange :
           FetchOrigin(<<DEFAULT_REMOTE_NAME, "master">>, ch, MaxCommits)
    \/ ModifyWorkTree
    \/ GitCheckoutNew(<<NonUtf8>>)
    \/ \E branch_ref \in RefInputs : CheckoutBranch(branch_ref)
    \/ \E branch_ref \in DeleteInputs : DeleteBranch(branch_ref)
    \/ GetBranchName

SpecNames == Init /\ [][NextNames]_vars

\* The listings and the checkout of a listed remote branch, over remote
\* branches with nested names and a refs/remotes/origin/HEAD that may dangle.

\* fetch --prune after the branch was deleted on the remote.
PruneRemoteBranch(rb) ==
    /\ rb \in DOMAIN remote_refs
    /\ remote_refs' = Drop(remote_refs, rb)
    /\ last' = Called("prune", rb, Ok, <<>>)
    /\ UNCHANGED <<refs, upstream, head, dirty, index_conflicts, rebase, remotes,
                   origin_head, made>>

\* git remote set-head: refs/remotes/origin/HEAD points to a fetched branch.
SetOriginHead(rb) ==
    /\ rb \in DOMAIN remote_refs
    /\ origin_head' = rb
    /\ last' = Called("set_origin_head", rb, Ok, <<>>)
    /\ UNCHANGED <<refs, remote_refs, upstream, head, dirty, index_conflicts,
                   rebase, remotes, made>>

\* A listing that deletes the reference it cannot resolve, in place of
\* skipping its entry.
GetBranchesInfoPruning(local) ==
    /\ last' = Called("get_branches_info",
                      IF local THEN <<"local">> ELSE <<"remote">>,
                      get_branches_info(Repo, local).res,
                      get_branches_info(Repo, local).branches)
    /\ origin_head' = IF ~local /\ origin_head \notin DOMAIN remote_refs
                      THEN NoName ELSE origin_head
    /\ UNCHANGED <<refs, remote_refs, upstream, head, dirty, index_conflicts,
                   rebase, remotes, made>>

\* The call's result is kept in the record: the listed entries, in order.
GetBranchesInfo(local) ==
    /\ last' = Called("get_branches_info",
                      IF local THEN <<"local">> ELSE <<"remote">>,
                      get_branches_info(Repo, local).res,
                      get_branches_info(Repo, local).branches)
    /\ UNCHANGED <<refs, remote_refs, upstream, head, dirty, index_conflicts,
                   rebase, remotes, origin_head, made>>

\* The listed remote branches a caller checks out: every entry but origin/HEAD.
ListedRemoteBranches(r) ==
    LET listed == get_branches_info(r, FALSE).branches
    IN  {listed[i] : i \in 1..Len(listed)} \ {e \in {listed[i] : i \in 1..Len(listed)} :
                                                 e.name = ORIGIN_HEAD}

NextListing ==
    \/ \E ch \in LocalChange : WriteCommitFile(ch, MaxCommits)
    \/ \E rb \in NestedRemoteBranchNames, ch \in FetchedChange :
           FetchOrigin(rb, ch, MaxCommits)
    \/ \E rb \in NestedRemoteBranchNames : PruneRemoteBranch(rb)
    \/ \E rb \in NestedRemoteBranchNames : SetOriginHead(rb)
    \/ \E local \in BOOLEAN : GetBranchesInfo(local)
    \/ \E branch \in ListedRemoteBranches(Repo) : CheckoutRemoteBranch(branch)
    \/ GetBranchName
    \/ GitCheckoutNew(<<NonUtf8>>)

SpecListing == Init /\ [][NextListing]_vars

\* The read-only operations, between the operations and steps that change
\* what they read: branches, HEAD (attached, detached, unborn), remotes,
\* remote-tracking branches, the working tree.
ReadOnlyRemoteNames == {DEFAULT_REMOTE_NAME, "second"}

NextReadOnly ==
    \/ \E ch \in LocalChange : WriteCommitFile(ch, MaxCommits)
    \/ Push
    \/ \E ch \in FetchedChange :
           /\ DEFAULT_REMOTE_NAME \in RemoteSet(remotes)
           /\ FetchOrigin(<<DEFAULT_REMOTE_NAME, "master">>, ch, MaxCommits)
    \/ ModifyWorkTree
    \/ \E rb \in RemoteBranchNames : PruneRemoteBranch(rb)
    \/ \E rb \in RemoteBranchNames : SetOriginHead(rb)
    \/ \E name \in ReadOnlyRemoteNames : AddRemote(name)
    \/ \E name \in ReadOnlyRemoteNames : RemoveRemote(name)
    \/ \E branch_ref \in RefInputs : CheckoutBranch(branch_ref)
    \/ GetBranchName
    \/ \E local \in BOOLEAN : GetBranchesInfo(local)
    \/ GetRemotes
    \/ GetDefaultRemote
    \/ \E name \in LocalNames : BranchCompareUpstream(name)

SpecReadOnly == Init /\ [][NextReadOnly]_vars

\* ------------------------------------------------------------- ui/mod.rs

UsizeMax == 2^UsizeBits - 1
Usize == 0..UsizeMax

\* The two builds: with overflow checks (`+` panics on overflow) and without
\* (`+` wraps).
Builds == {"debug", "release"}

Panicked == [kind |-> "Panic", msg |-> "attempt to add with overflow"]

\* usize::saturating_sub
saturating_sub(a, b) == IF a >= b THEN a - b ELSE 0

calc_scroll_top(build, current_top, height_in_lines, selection) ==
    LET bottom == current_top + height_in_lines
        lifted == saturating_sub(selection, height_in_lines) + 1
    IN  IF bottom > UsizeMax /\ build = "debug"
        THEN [res |-> Panicked, top |-> 0]
        ELSE IF bottom % (UsizeMax + 1) <= selection
        THEN IF lifted > UsizeMax /\ build = "debug"
             THEN [res |-> Panicked, top |-> 0]
             ELSE [res |-> Ok, top |-> lifted % (UsizeMax + 1)]
        ELSE IF current_top > selection
        THEN [res |-> Ok, top |-> selection]
        ELSE [res |-> Ok, top |-> current_top]

\* A list about to be drawn for the first time: scrolled to the top, its
\* height in lines and the selected line each any usize.
InitScroll ==
    /\ refs = <<>>
    /\ remote_refs = <<>>
    /\ upstream = <<>>
    /\ head = Symbolic(<<"master">>)
    /\ dirty = FALSE
    /\ index_conflicts = FALSE
    /\ rebase = NoRebase
    /\ remotes = <<DEFAULT_REMOTE_NAME>>
    /\ origin_head = NoName
    /\ made = 0
    /\ \E height_in_lines \in Usize, selection \in Usize :
           last = Called("scroll_state", <<0, height_in_lines, selection>>, Ok, <<>>)

\* The call: the record keeps the arguments and, in the log, the returned
\* position.  A panic ends the program.
CalcScrollTop(build) ==
    LET out == calc_scroll_top(build, last.arg[1], last.arg[2], last.arg[3])
    IN  /\ last.op = "scroll_state"
        /\ last' = Called("calc_scroll_top", last.arg, out.res,
                          IF out.res = Ok THEN <<out.top>> ELSE <<>>)
        /\ UNCHANGED <<refs, remote_refs, upstream, head, dirty, index_conflicts,
                       rebase, remotes, origin_head, made>>

\* The next draw: the returned position is the list's scroll position, the
\* selection and the height are the ones of the moment.
NextDraw(height_in_lines, selection) ==
    /\ last.op = "calc_scroll_top"
    /\ last.res = Ok
    /\ last' = Called("scroll_state", <<last.log[1], height_in_lines, selection>>,
                      Ok, <<>>)
    /\ UNCHANGED <<refs, remote_refs, upstream, head, dirty, index_conflicts,
                   rebase, remotes, origin_head, made>>

NextScroll ==
    \/ \E build \in Builds : CalcScrollTop(build)
    \/ \E height_in_lines \in Usize, selection \in Usize :
           NextDraw(height_in_lines, selection)

SpecScroll == InitScroll /\ [][NextScroll]_vars

\* ------------------------------------------------------------- the claims

PublicOps ==
    {"get_branch_name", "create_branch", "delete_branch", "checkout_branch",
     "checkout_remote_branch", "branch_set_upstream", "merge_upstream_rebase"}

Count(log, e) == Cardinality({i \in 1..Len(log) : log[i] = e})

CurrentBranch == get_branch_name_repo(Repo)
CurrentHeadCommit == HeadCommit(Repo)

RepoUnchanged ==
    UNCHANGED <<refs, remote_refs, upstream, head, dirty, index_conflicts,
                rebase, remotes, origin_head>>

IsRebaseCall(l) == l.op = "merge_upstream_rebase"

\* C1: whenever merge_upstream_rebase returns an error, no rebase is in
\* progress, the index has no conflicts and the branch's tip is the one it had
\* before the call.
C1_FailureLeavesClean ==
    [][(IsRebaseCall(last') /\ IsErr(last'.res))
        => /\ ~rebase'.active
           /\ ~index_conflicts'
           /\ last'.arg \in DOMAIN refs
                => (last'.arg \in DOMAIN refs' /\ refs'[last'.arg] = refs[last'.arg])
      ]_vars

\* C2: when the index is conflicted after an advance, merge_upstream_rebase
\* returns an error, no rebase is in progress, the index has no conflicts, and
\* HEAD and every reference are what they were before the call.
C2_ConflictRollsBack ==
    [][(IsRebaseCall(last') /\ Count(last'.log, "conflict") > 0)
        => /\ IsErr(last'.res)
           /\ ~rebase'.active
           /\ ~index_conflicts'
           /\ refs' = refs
           /\ remote_refs' = remote_refs
           /\ head' = head
      ]_vars

\* C2's case: a conflict at a later operation, after a replayed commit.
C2_Witness ==
    /\ IsRebaseCall(last)
    /\ Count(last.log, "commit") >= 1
    /\ Count(last.log, "conflict") = 1
    /\ last.old = refs[last.arg]

\* C3: after a successful merge_upstream_rebase the branch is the upstream
\* commit followed by the changes of the commits that were ahead of the merge
\* base, in their order: N + M + base commits; the repository is clean.
C3_SuccessIsLinear ==
    [][(IsRebaseCall(last') /\ last'.res = Ok)
        => LET b == last'.arg
               up == UpstreamCommit(Repo, b)
               tip == refs[b]
               base == MergeBaseLen(tip, up)
           IN  /\ refs'[b] = up \o SubSeq(tip, base + 1, Len(tip))
               /\ Len(refs'[b]) = (Len(tip) - base) + (Len(up) - base) + base
               /\ ~rebase'.active
               /\ ~index_conflicts'
               /\ ~dirty'
      ]_vars

\* C3's case: two commits replayed on top of an upstream that had moved.
C3_Witness ==
    /\ IsRebaseCall(last)
    /\ last.res = Ok
    /\ Count(last.log, "commit") >= 2
    /\ ~IsPrefix(UpstreamCommit(Repo, last.arg), last.old)

\* C4: a public operation called while HEAD references a commit returns with
\* HEAD referencing a commit and with no conflict in the index.
C4_HeadStaysValid ==
    [][(last'.op \in PublicOps /\ CurrentHeadCommit # NoCommit)
        => (CurrentHeadCommit' # NoCommit /\ ~index_conflicts')
      ]_vars

\* C5: checkout_branch returning an error leaves HEAD as it was.
C5_CheckoutAllOrNothing ==
    [][(last'.op = "checkout_branch" /\ IsErr(last'.res)) => head' = head]_vars

\* C6: checkout_remote_branch returning an error leaves HEAD, the local
\* branches and their upstreams as they were.
C6_RemoteCheckoutAllOrNothing ==
    [][(last'.op = "checkout_remote_branch" /\ IsErr(last'.res))
        => (head' = head /\ refs' = refs /\ upstream' = upstream)
      ]_vars

\* The two halves of C7 for one call of checkout_branch.
CheckoutGuard ==
    /\ dirty => (last'.res = ErrUncommittedChanges /\ head' = head)
    /\ (~dirty /\ IsBranchRef(last'.arg) /\ ShortName(last'.arg) \in DOMAIN refs)
         => /\ last'.res = Ok
            /\ CurrentBranch' = [res |-> Ok, name |-> ShortName(last'.arg)]

\* C7 as stated: checkout_branch on a dirty tree fails with UncommittedChanges
\* and leaves HEAD; on a clean tree the checkout of an existing local branch
\* succeeds and the current branch is that branch.
C7_CheckoutGuard ==
    [][last'.op = "checkout_branch" => CheckoutGuard]_vars

\* C7, amended: the same, when HEAD resolves to a commit before the call;
\* when it does not, checkout_branch fails with the library's error and leaves
\* HEAD as it was.
C7_CheckoutGuardBornHead ==
    [][last'.op = "checkout_branch"
        => IF CurrentHeadCommit # NoCommit
           THEN CheckoutGuard
           ELSE last'.res.kind = "Git" /\ head' = head
      ]_vars

\* C7's case: a checkout that switched from one existing branch to another.
C7_Witness ==
    /\ last.op = "checkout_branch"
    /\ last.res = Ok
    /\ last.arg = HEADS \o <<"foo">>
    /\ is_head(Repo, <<"foo">>)
    /\ <<"master">> \in DOMAIN refs
    /\ ~dirty

\* C8: the error of a detected conflict is of the MergeConflict kind.
C8_ConflictErrorKind ==
    (IsRebaseCall(last) /\ Count(last.log, "conflict") > 0)
        => last.res.kind = "MergeConflict"

\* The parts of C9 that hold as stated: without an upstream the library's
\* error is returned, and a failed precondition opens no session and changes
\* nothing; a session is opened only for HEAD's branch with an upstream.
RebasePreconditions ==
    LET cur == CurrentBranch
        b == last'.arg
        is_current == cur.res = Ok /\ cur.name = b
    IN  /\ ~is_current => (last'.log = <<>> /\ RepoUnchanged)
        /\ (is_current /\ ~HasUpstream(Repo, b))
             => (last'.res = ErrGit("NotFound") /\ last'.log = <<>> /\ RepoUnchanged)
        /\ Count(last'.log, "rebase") > 0 => (is_current /\ HasUpstream(Repo, b))

\* C9 as stated: a branch name that is not HEAD's branch is rejected with the
\* generic precondition error.
C9_PreconditionGeneric ==
    [][IsRebaseCall(last')
        => /\ RebasePreconditions
           /\ ~(CurrentBranch.res = Ok /\ CurrentBranch.name = last'.arg)
                => last'.res.kind = "Generic"
      ]_vars

\* C9, amended: the generic error when HEAD is on another branch, NoHead when
\* HEAD is on no existing branch (detached or unborn).
C9_Precondition ==
    [][IsRebaseCall(last')
        => /\ RebasePreconditions
           /\ (CurrentBranch.res = Ok /\ CurrentBranch.name # last'.arg)
                => last'.res = ErrGeneric("can only rebase in head branch")
           /\ IsErr(CurrentBranch.res) => last'.res = ErrNoHead
      ]_vars

\* C9's case: a rebase of a branch that is not HEAD's, rejected.
C9_Witness ==
    /\ IsRebaseCall(last)
    /\ last.res = ErrGeneric("can only rebase in head branch")
    /\ CurrentBranch.res = Ok
    /\ CurrentBranch.name # last.arg

\* C10 as stated: origin when it is configured, else the only remote, else
\* NoDefaultRemoteFound.
C10_DefaultRemote ==
    last.op = "get_default_remote"
        => IF DEFAULT_REMOTE_NAME \in RemoteSet(remotes)
           THEN last.res = Ok /\ last.arg = <<DEFAULT_REMOTE_NAME>>
           ELSE IF Len(remotes) = 1
           THEN last.res = Ok /\ last.arg = <<remotes[1]>>
           ELSE last.res = ErrNoDefaultRemoteFound

\* C10, amended: the only remote is returned when its name is valid UTF-8;
\* when it is not, the call fails with Generic("no remote found").
C10_DefaultRemoteUtf8 ==
    last.op = "get_default_remote"
        => IF DEFAULT_REMOTE_NAME \in RemoteSet(remotes)
           THEN last.res = Ok /\ last.arg = <<DEFAULT_REMOTE_NAME>>
           ELSE IF Len(remotes) = 1
           THEN IF remotes[1] = NonUtf8
                THEN last.res = ErrGeneric("no remote found")
                ELSE last.res = Ok /\ last.arg = <<remotes[1]>>
           ELSE last.res = ErrNoDefaultRemoteFound

\* C10's case: origin found behind another remote.
C10_Witness ==
    /\ last.op = "get_default_remote"
    /\ Len(remotes) >= 2
    /\ remotes[1] # DEFAULT_REMOTE_NAME
    /\ last.res = Ok
    /\ last.arg = <<DEFAULT_REMOTE_NAME>>

\* C11: a successful checkout_remote_branch of <remote>/<rest> on a clean tree
\* creates the local branch <rest> at the remote branch's top commit with the
\* remote branch as its upstream, makes it the current branch, and adds
\* exactly one local branch.
C11_LocalNameIsRest ==
    [][(last'.op = "checkout_remote_branch" /\ ~dirty /\ last'.res = Ok)
        => LET rest == Tail(last'.arg)
           IN  /\ rest \in DOMAIN refs'
               /\ refs'[rest] = remote_refs[last'.arg]
               /\ rest \in DOMAIN upstream'
               /\ upstream'[rest] = last'.arg
               /\ CurrentBranch' = [res |-> Ok, name |-> rest]
               /\ Cardinality(DOMAIN refs') = Cardinality(DOMAIN refs) + 1
      ]_vars

\* The local branches as get_branches_info(local = true) lists them.
LocalListing == get_branches_info(Repo, TRUE).branches

\* The listed name and top commit of every entry.
Tips(listing) ==
    {<<listing[i].name, listing[i].top_commit>> : i \in 1..Len(listing)}

\* C12: delete_branch on the branch HEAD points to fails with the
\* CannotDeleteCurrentBranch kind; the branch still exists and HEAD still
\* points to it.
C12_DeleteCurrentRefused ==
    [][(last'.op = "delete_branch" /\ IsBranchRef(last'.arg)
        /\ is_head(Repo, ShortName(last'.arg)))
        => /\ last'.res.kind = "CannotDeleteCurrentBranch"
           /\ refs' = refs
           /\ head' = head
      ]_vars

\* C13: delete_branch on an existing local branch that is not the current one
\* removes that branch from the listing and nothing else, and leaves HEAD; on
\* a reference that does not exist it fails with NotFound and changes nothing.
C13_DeleteRemovesExactlyOne ==
    [][last'.op = "delete_branch"
        => LET n == ShortName(last'.arg)
           IN  /\ (IsBranchRef(last'.arg) /\ n \in DOMAIN refs /\ ~is_head(Repo, n))
                    => /\ last'.res = Ok
                       /\ Tips(LocalListing') = {t \in Tips(LocalListing) : t[1] # n}
                       /\ Len(LocalListing') = Len(LocalListing) - 1
                       /\ head' = head
                       /\ remote_refs' = remote_refs
               /\ ~RefExists(Repo, last'.arg)
                    => (last'.res = ErrGit("NotFound") /\ RepoUnchanged)
      ]_vars

\* C13's case: a branch deleted while another one, HEAD's, stays.
C13_Witness ==
    /\ last.op = "delete_branch"
    /\ last.res = Ok
    /\ ShortName(last.arg) \notin DOMAIN refs
    /\ CurrentBranch.res = Ok
    /\ Len(LocalListing) = 1

\* C14: create_branch(name) with HEAD on a commit and no branch of that name
\* creates the branch at HEAD's commit and makes it the current branch, the
\* other branches unchanged; when the branch exists or HEAD is unborn it fails
\* and changes neither HEAD nor a branch.
C14_CreateBranch ==
    [][last'.op = "create_branch"
        => LET name == last'.arg
           IN  /\ (CurrentHeadCommit # NoCommit /\ name \notin DOMAIN refs)
                    => /\ last'.res = Ok
                       /\ DOMAIN refs' = DOMAIN refs \cup {name}
                       /\ refs'[name] = CurrentHeadCommit
                       /\ \A b \in DOMAIN refs : refs'[b] = refs[b]
                       /\ CurrentBranch' = [res |-> Ok, name |-> name]
               /\ (CurrentHeadCommit = NoCommit \/ name \in DOMAIN refs)
                    => (IsErr(last'.res) /\ head' = head /\ refs' = refs)
      ]_vars

\* C14's case: a second branch created and made current.
C14_Witness ==
    /\ last.op = "create_branch"
    /\ last.res = Ok
    /\ is_head(Repo, last.arg)
    /\ Cardinality(DOMAIN refs) = 2

\* C15 as stated: get_branch_name returns the name of the branch HEAD is
\* attached to, and fails with NoHead when HEAD is unborn or detached.
C15_CurrentBranchName ==
    last.op = "get_branch_name"
        => IF head.kind = "symbolic" /\ head.name \in DOMAIN refs
           THEN last.res = Ok /\ last.arg = head.name
           ELSE last.res = ErrNoHead

\* C15, amended: the name when it is valid UTF-8, the empty string when it
\* is not; never the name of another branch.
C15_CurrentBranchNameUtf8 ==
    last.op = "get_branch_name"
        => IF head.kind = "symbolic" /\ head.name \in DOMAIN refs
           THEN /\ last.res = Ok
                /\ last.arg = IF head.name = <<NonUtf8>> THEN <<"">> ELSE head.name
           ELSE last.res = ErrNoHead

\* C15's case: NoHead on a detached HEAD while branches exist.
C15_Witness ==
    /\ last.op = "get_branch_name"
    /\ last.res = ErrNoHead
    /\ head.kind = "detached"
    /\ refs # <<>>

\* The references of the listed kind that resolve to a commit.
Resolving(local) ==
    IF local THEN DOMAIN refs
    ELSE DOMAIN remote_refs
         \cup (IF origin_head \in DOMAIN remote_refs THEN {ORIGIN_HEAD} ELSE {})

\* The listing kept in the record has exactly the names S, each once, with
\* its top commit, in ascending order of name.
ListsExactly(S, local) ==
    /\ last.res = Ok
    /\ {last.log[i].name : i \in 1..Len(last.log)} = S
    /\ Len(last.log) = Cardinality(S)
    /\ \A i \in 1..Len(last.log) :
           last.log[i].top_commit = peel_to_commit(Repo, local, last.log[i].name).id
    /\ \A i, j \in 1..Len(last.log) :
           i < j => NameRank(last.log[i].name) < NameRank(last.log[j].name)

DefaultRemote == get_default_remote_in_repo(remotes)

\* C17 as stated: branch_set_upstream keeps an existing upstream (and
\* succeeds without a default remote); with none it sets
\* <defaultRemote>/<branchName>; without a default remote it fails with
\* NoDefaultRemoteFound and the branch still has no upstream.
C17_SetUpstream ==
    [][(last'.op = "branch_set_upstream" /\ last'.arg \in DOMAIN refs)
        => LET b == last'.arg
           IN  /\ HasUpstream(Repo, b) => (last'.res = Ok /\ upstream' = upstream)
               /\ (~HasUpstream(Repo, b) /\ DefaultRemote.res = Ok)
                    => /\ last'.res = Ok
                       /\ upstream' = Put(upstream, b, <<DefaultRemote.name>> \o b)
               /\ (~HasUpstream(Repo, b) /\ IsErr(DefaultRemote.res))
                    => (last'.res = ErrNoDefaultRemoteFound /\ upstream' = upstream)
      ]_vars

\* C17, amended: the upstream is set when the remote-tracking branch
\* <defaultRemote>/<branchName> exists, and the library's error is returned
\* when it does not; the one remote with a name that is not valid UTF-8 gives
\* Generic("no remote found"); a failure leaves the upstream settings.
C17_SetUpstreamOfFetched ==
    [][(last'.op = "branch_set_upstream" /\ last'.arg \in DOMAIN refs)
        => LET b == last'.arg
               target == <<DefaultRemote.name>> \o b
           IN  /\ HasUpstream(Repo, b) => (last'.res = Ok /\ RepoUnchanged)
               /\ (~HasUpstream(Repo, b) /\ DefaultRemote.res = Ok
                   /\ target \in DOMAIN remote_refs)
                    => (last'.res = Ok /\ upstream' = Put(upstream, b, target))
               /\ (~HasUpstream(Repo, b) /\ DefaultRemote.res = Ok
                   /\ target \notin DOMAIN remote_refs)
                    => (last'.res = ErrGit("NotFound") /\ upstream' = upstream)
               /\ (~HasUpstream(Repo, b) /\ IsErr(DefaultRemote.res))
                    => /\ upstream' = upstream
                       /\ last'.res = IF remotes = <<NonUtf8>>
                                      THEN ErrGeneric("no remote found")
                                      ELSE ErrNoDefaultRemoteFound
      ]_vars

\* C17's case: a second call on a branch with an upstream, when no default
\* remote can be resolved any more.
C17_Witness ==
    /\ last.op = "branch_set_upstream"
    /\ last.res = Ok
    /\ last.arg \in DOMAIN refs
    /\ HasUpstream(Repo, last.arg)
    /\ IsErr(DefaultRemote.res)

\* The commits reachable from a commit: the commit and its ancestors.
Reachable(c) == {SubSeq(c, 1, k) : k \in 1..Len(c)}

\* C18: branch_compare_upstream returns as ahead the number of commits
\* reachable from the branch's tip and not from its upstream's, as behind the
\* number reachable from the upstream's tip and not from the branch's; it
\* fails, with no counts, when the branch does not exist or has no upstream.
C18_CompareUpstream ==
    last.op = "branch_compare_upstream"
    => IF last.arg \in DOMAIN refs /\ HasUpstream(Repo, last.arg)
       THEN LET local == Reachable(refs[last.arg])
                theirs == Reachable(UpstreamCommit(Repo, last.arg))
            IN  /\ last.res = Ok
                /\ last.log = <<Cardinality(local \ theirs), Cardinality(theirs \ local)>>
       ELSE IsErr(last.res) /\ last.log = <<>>

\* C18's case: one commit only on the branch and two only on its upstream.
C18_Witness ==
    /\ last.op = "branch_compare_upstream"
    /\ last.res = Ok
    /\ last.log = <<1, 2>>

\* The actions of a rebase session after it is opened.
SessionActions == {"next", "commit", "abort", "finish"}

\* C19: merge_upstream_rebase called while a rebase is in progress returns an
\* error, leaves the rebase in progress as it is and takes no action of a
\* session.
C19_SingleSession ==
    [][(IsRebaseCall(last') /\ rebase.active)
        => /\ IsErr(last'.res)
           /\ rebase' = rebase
           /\ \A i \in 1..Len(last'.log) : last'.log[i] \notin SessionActions
      ]_vars

\* C19's case: the call reached Repository::rebase, which refused to open a
\* second rebase.
C19_Witness ==
    /\ IsRebaseCall(last)
    /\ last.res = ErrGit("RebaseInProgress")
    /\ rebase.active
    /\ Count(last.log, "rebase") = 1

\* C20: in the session of a merge_upstream_rebase call every advance is
\* followed at once by the commit of a clean index or by the detection of the
\* conflict, a commit only ever follows an advance, a detected conflict is
\* followed by the abort and by nothing more, and the call never returns with
\* a conflicted index.
C20_ConflictThenAbort ==
    IsRebaseCall(last)
    => /\ ~index_conflicts
       /\ \A i \in 1..Len(last.log) :
            /\ last.log[i] = "next"
                 => (i < Len(last.log) /\ last.log[i + 1] \in {"commit", "conflict"})
            /\ last.log[i] = "commit" => (i > 1 /\ last.log[i - 1] = "next")
            /\ last.log[i] = "conflict"
                 => (i + 1 = Len(last.log) /\ last.log[i + 1] = "abort")
            /\ last.log[i] = "abort" => (i > 1 /\ last.log[i - 1] = "conflict")

\* C20's case: the first advance is clean and committed, the second one is
\* conflicted.
C20_Witness ==
    /\ IsRebaseCall(last)
    /\ last.log = <<"rebase", "next", "commit", "next", "conflict", "abort">>
    /\ ~rebase.active

\* The session of a rebase of n operations that runs to its end: each
\* operation advanced to and committed, then the finish.
RECURSIVE Steps(_)
Steps(n) == IF n = 0 THEN <<>> ELSE <<"next", "commit">> \o Steps(n - 1)

FullSession(n) == <<"rebase">> \o Steps(n) \o <<"finish">>

\* C21: a merge_upstream_rebase call that returns success advanced to and
\* committed each of the commits the branch was ahead of its upstream, once
\* and in their order, then finished, and never aborted: its session is
\* rebase, (next, commit) for each operation, finish, and the branch holds
\* the operations' changes in their order on top of the upstream.
C21_SuccessfulSession ==
    [][(IsRebaseCall(last') /\ last'.res = Ok)
        => LET b == last'.arg
               up == UpstreamCommit(Repo, b)
               base == MergeBaseLen(refs[b], up)
               n == Len(refs[b]) - base
           IN  /\ last'.log = FullSession(n)
               /\ Count(last'.log, "abort") = 0
               /\ Count(last'.log, "conflict") = 0
               /\ Len(refs'[b]) = Len(up) + n
               /\ \A i \in 1..n : refs'[b][Len(up) + i] = refs[b][base + i]
      ]_vars

\* C21's case: a session of three operations run to its end.
C21_Witness ==
    /\ IsRebaseCall(last)
    /\ last.res = Ok
    /\ last.log = FullSession(3)

\* C22: a merge_upstream_rebase call that opened a session makes at most as
\* many advances as the session has operations and returns only when the
\* session is over: finished, or aborted with no rebase left in progress.
C22_RunsToTerminal ==
    [][(IsRebaseCall(last') /\ ~rebase.active /\ Len(last'.log) > 1)
        => LET b == last'.arg
               n == Len(refs[b]) - MergeBaseLen(refs[b], UpstreamCommit(Repo, b))
           IN  /\ Count(last'.log, "next") <= n
               /\ Count(last'.log, "finish") + Count(last'.log, "abort") = 1
               /\ ~rebase'.active
      ]_vars

\* C23: when merge_upstream_rebase(branch_name) returns success or the
\* conflict error, HEAD is attached to branch_name, as it was before the call.
C23_HeadStaysOnBranch ==
    [][(IsRebaseCall(last') /\ last'.res \in {Ok, ConflictError})
        => /\ head = Symbolic(last'.arg)
           /\ head' = Symbolic(last'.arg)
      ]_vars

\* C23's case: a successful rebase that moved the branch, HEAD on the branch.
C23_Witness ==
    /\ IsRebaseCall(last)
    /\ last.res = Ok
    /\ head = Symbolic(last.arg)
    /\ refs[last.arg] # last.old

\* C24: after a successful merge_upstream_rebase(branch) the comparison of
\* the branch with its upstream succeeds with behind = 0 and with the ahead
\* it had before the call, and the remote-tracking branches and the upstream
\* settings are the ones of before the call.
C24_RebasedIsAhead ==
    [][\A b \in LocalNames :
        (IsRebaseCall(last') /\ last'.arg = b /\ last'.res = Ok)
        => LET before == branch_compare_upstream(Repo, b)
               after == branch_compare_upstream(Repo, b)'
           IN  /\ before.res = Ok
               /\ after.res = Ok
               /\ after.behind = 0
               /\ after.ahead = before.ahead
               /\ remote_refs' = remote_refs
               /\ upstream' = upstream
      ]_vars

\* C24's case: a branch one commit ahead and two behind, rebased: one ahead,
\* none behind.
C24_Witness ==
    /\ IsRebaseCall(last)
    /\ last.res = Ok
    /\ graph_ahead_behind(last.old, UpstreamCommit(Repo, last.arg)) = <<1, 2>>
    /\ branch_compare_upstream(Repo, last.arg).res = Ok
    /\ branch_compare_upstream(Repo, last.arg).ahead = 1
    /\ branch_compare_upstream(Repo, last.arg).behind = 0

\* C25: merge_upstream_rebase of the current branch, with a clean working
\* tree, no rebase in progress and no commit ahead of the upstream, succeeds
\* with a session of no advance and no commit, only the finish; it creates no
\* commit, the branch's tip is the upstream's tip, HEAD is on the branch and
\* no rebase is in progress and no conflict is in the index.
C25_NothingAhead ==
    [][\A b \in LocalNames :
        (/\ IsRebaseCall(last') /\ last'.arg = b
         /\ head = Symbolic(b) /\ b \in DOMAIN refs
         /\ HasUpstream(Repo, b)
         /\ ~dirty /\ ~rebase.active
         /\ IsPrefix(refs[b], UpstreamCommit(Repo, b)))
        => /\ last'.res = Ok
           /\ last'.log = <<"rebase", "finish">>
           /\ refs' = Put(refs, b, UpstreamCommit(Repo, b))
           /\ Commits(Repo)' \subseteq Commits(Repo)
           /\ remote_refs' = remote_refs
           /\ head' = Symbolic(b)
           /\ ~rebase'.active /\ ~index_conflicts' /\ ~dirty'
      ]_vars

\* C25's case: a branch two commits behind its upstream and none ahead, moved
\* to the upstream's tip.
C25_Witness ==
    /\ IsRebaseCall(last)
    /\ last.res = Ok
    /\ last.log = <<"rebase", "finish">>
    /\ last.arg \in DOMAIN refs
    /\ refs[last.arg] = UpstreamCommit(Repo, last.arg)
    /\ Len(refs[last.arg]) = Len(last.old) + 2

\* The operations that create, delete and switch branches.
BranchOps ==
    {"create_branch", "checkout_branch", "checkout_remote_branch",
     "delete_branch", "merge_upstream_rebase"}

\* The entries of a listing marked as HEAD's branch.
ListedHeads(listing) == {i \in 1..Len(listing) : listing[i].is_head}

\* At most one listed branch is HEAD's, and a current branch name that can be
\* read is the name of that entry, of a branch that exists.
OneHeadListed ==
    LET listing == LocalListing
        heads == ListedHeads(listing)
        current == CurrentBranch
    IN  /\ Cardinality(heads) <= 1
        /\ current.res = Ok
             => /\ current.name \in DOMAIN refs
                /\ \E i \in heads : listing[i].name = current.name

ReadOnlyOps ==
    {"get_branch_name", "get_branches_info", "get_remotes",
     "get_default_remote", "branch_compare_upstream"}

C28_SelectionInView ==
    (last.op = "calc_scroll_top" /\ last.arg[2] >= 1)
    => LET current_top == last.arg[1]
           height_in_lines == last.arg[2]
           selection == last.arg[3]
       IN  /\ last.res = Ok
           /\ last.log[1] <= selection
           /\ selection < last.log[1] + height_in_lines
           /\ (current_top <= selection /\ selection < current_top + height_in_lines)
                => last.log[1] = current_top
           /\ \A build \in Builds :
                calc_scroll_top(build, last.log[1], height_in_lines, selection)
                    = [res |-> Ok, top |-> last.log[1]]

====
